---- MODULE Spec2Model ----
(***************************************************************************)
(* NFL Team Stats API (src/src/app.py): a read-only HTTP service over a    *)
(* JSON file of team records.  A Python string is modelled as the sequence *)
(* of its characters, a team as a record with the two fields the service   *)
(* interprets, the backing file as the sequence of teams it holds, and an  *)
(* HTTP response as a record with its status code and either its body or   *)
(* the detail of the HTTPException.                                        *)
(***************************************************************************)
EXTENDS Integers, Sequences, FiniteSets

VARIABLES file, request, response

vars == <<file, request, response>>

\* ---------------------------------------------------------------- bounds
MaxTeams == 2
MaxPoints == 1

\* ------------------------------------------------------- strings and data
\* Sample names: three case-insensitive classes ("ab", "a", "9"), the first
\* in its lower, upper and mixed spelling, the last without any letter.
Names == { <<"a", "b">>, <<"A", "B">>, <<"A", "b">>, <<"a">>, <<"9">> }

Points == 0..MaxPoints

Team == [name : Names, points_scored : Points]

Collections == UNION { [1..n -> Team] : n \in 0..MaxTeams }

\* str.lower() on one character of the alphabet in use.
LowerChar(c) ==
  CASE c = "A" -> "a"
    [] c = "B" -> "b"
    [] OTHER -> c

\* str.lower()
Lower(s) == [k \in 1..Len(s) |-> LowerChar(s[k])]

LOG_LEVEL == "info"

SAME_TEAM == <<"s", "a", "m", "e", " ", "t", "e", "a", "m">>

TIE == <<"t", "i", "e">>

None == [none |-> TRUE]

Ok(body) == [status |-> 200, body |-> body]

HTTPException(status_code, detail) == [status |-> status_code, detail |-> detail]

\* ------------------------------------------------------------- handlers
\* A load that goes wrong once a request has failed: later loads see nothing.
load_teams_stale == IF response.status = 404 THEN << >> ELSE file

load_teams == file

health_check == Ok([status |-> "ok", log_level |-> LOG_LEVEL])

\* The list handed back in the opposite order.
get_teams_reversed ==
  LET teams == load_teams
  IN  Ok([i \in 1..Len(teams) |-> teams[Len(teams) + 1 - i]])

get_teams == Ok(load_teams)

\* The loop of get_team with the stored name compared as it is spelled.
RECURSIVE get_team_for_unlowered(_, _, _)
get_team_for_unlowered(teams, team_name, i) ==
  IF i > Len(teams)
    THEN HTTPException(404, "Team not found")
    ELSE IF teams[i].name = Lower(team_name)
      THEN Ok(teams[i])
      ELSE get_team_for_unlowered(teams, team_name, i + 1)

\* The loop of get_team matching on the first character only.
RECURSIVE get_team_for_prefix(_, _, _)
get_team_for_prefix(teams, team_name, i) ==
  IF i > Len(teams)
    THEN HTTPException(404, "Team not found")
    ELSE IF Lower(teams[i].name)[1] = Lower(team_name)[1]
      THEN Ok(teams[i])
      ELSE get_team_for_prefix(teams, team_name, i + 1)

\* for team in teams: ... ; raise HTTPException
RECURSIVE get_team_for(_, _, _)
get_team_for(teams, team_name, i) ==
  IF i > Len(teams)
    THEN HTTPException(404, "Team not found")
    ELSE IF Lower(teams[i].name) = Lower(team_name)
      THEN Ok(teams[i])
      ELSE get_team_for(teams, team_name, i + 1)

get_team(team_name) == get_team_for(load_teams, team_name, 1)

\* find keeping the last match instead of stopping at the first.
RECURSIVE find_last(_, _, _)
find_last(teams, name, i) ==
  IF i > Len(teams)
    THEN None
    ELSE LET rest == find_last(teams, name, i + 1)
         IN  IF rest # None
               THEN rest
               ELSE IF Lower(teams[i].name) = Lower(name) THEN teams[i] ELSE None

\* compare_teams.find
RECURSIVE find(_, _, _)
find(teams, name, i) ==
  IF i > Len(teams)
    THEN None
    ELSE IF Lower(teams[i].name) = Lower(name)
      THEN teams[i]
      ELSE find(teams, name, i + 1)

\* The if/elif chain without its first branch.
higher_no_same(a, b) ==
  IF a.points_scored > b.points_scored
    THEN a.name
    ELSE IF a.points_scored < b.points_scored THEN b.name ELSE TIE

\* The if/elif chain with >= in place of >.
higher_ge(a, b) ==
  IF Lower(a.name) = Lower(b.name)
    THEN SAME_TEAM
    ELSE IF a.points_scored >= b.points_scored
      THEN a.name
      ELSE IF a.points_scored < b.points_scored THEN b.name ELSE TIE

\* The if/elif chain naming the first team in both unequal branches.
higher_first(a, b) ==
  IF Lower(a.name) = Lower(b.name)
    THEN SAME_TEAM
    ELSE IF a.points_scored > b.points_scored
      THEN a.name
      ELSE IF a.points_scored < b.points_scored THEN a.name ELSE TIE

\* The if/elif chain that sets higher.
higher(a, b) ==
  IF Lower(a.name) = Lower(b.name)
    THEN SAME_TEAM
    ELSE IF a.points_scored > b.points_scored
      THEN a.name
      ELSE IF a.points_scored < b.points_scored THEN b.name ELSE TIE

\* The body of compare_teams answering "same team" for equal queries before
\* it looks at what find returned.
compare_same_first(teams, team_a, team_b) ==
  LET a == find(teams, team_a, 1)
      b == find(teams, team_b, 1)
  IN  IF Lower(team_a) = Lower(team_b)
        THEN Ok([team_a |-> a, team_b |-> b, higher_scoring_team |-> SAME_TEAM])
        ELSE IF a = None \/ b = None
          THEN HTTPException(404, "One or both teams not found")
          ELSE Ok([team_a |-> a, team_b |-> b,
                   higher_scoring_team |-> higher(a, b)])

\* The body of compare_teams with the two records in the wrong slots.
compare_swapped(teams, team_a, team_b) ==
  LET a == find(teams, team_a, 1)
      b == find(teams, team_b, 1)
  IN  IF a = None \/ b = None
        THEN HTTPException(404, "One or both teams not found")
        ELSE Ok([team_a |-> b, team_b |-> a,
                 higher_scoring_team |-> higher(a, b)])

\* The body of compare_teams after the load.
compare(teams, team_a, team_b) ==
  LET a == find(teams, team_a, 1)
      b == find(teams, team_b, 1)
  IN  IF a = None \/ b = None
        THEN HTTPException(404, "One or both teams not found")
        ELSE Ok([team_a |-> a, team_b |-> b,
                 higher_scoring_team |-> higher(a, b)])

compare_teams(team_a, team_b) == compare(load_teams, team_a, team_b)

\* ------------------------------------------------------------ behaviour
Init ==
  /\ file \in Collections
  /\ request = [kind |-> "none"]
  /\ response = [status |-> 0]

Health ==
  /\ request' = [kind |-> "health"]
  /\ response' = health_check
  /\ UNCHANGED file

GetTeams ==
  /\ request' = [kind |-> "teams"]
  /\ response' = get_teams
  /\ UNCHANGED file

GetTeam ==
  \E team_name \in Names :
    /\ request' = [kind |-> "team", team_name |-> team_name]
    /\ response' = get_team(team_name)
    /\ UNCHANGED file

CompareTeams ==
  \E team_a \in Names, team_b \in Names :
    /\ request' = [kind |-> "compare", team_a |-> team_a, team_b |-> team_b]
    /\ response' = compare_teams(team_a, team_b)
    /\ UNCHANGED file

Next == Health \/ GetTeams \/ GetTeam \/ CompareTeams

Spec == Init /\ [][Next]_vars

\* ------------------------------------------------- vocabulary of the claims
\* The upper-case spelling of one character of the alphabet in use.
UpperChar(c) ==
  CASE c = "a" -> "A"
    [] c = "b" -> "B"
    [] OTHER -> c

\* q is n in some letter case: lower, upper or mixed, character by character.
SameIgnoringCase(q, n) ==
  /\ Len(q) = Len(n)
  /\ \A k \in 1..Len(n) : q[k] \in {n[k], LowerChar(n[k]), UpperChar(n[k])}

\* The positions of the stored teams a query matches case-insensitively.
Matches(q) == { i \in DOMAIN file : Lower(file[i].name) = Lower(q) }

HasMatch(q) == Matches(q) # {}

FirstIdx(q) == CHOOSE i \in Matches(q) : \A j \in Matches(q) : i <= j

\* No earlier team of the collection has the name of team i in any letter case.
IsFirstOfName(i) == \A j \in 1..(i - 1) : Lower(file[j].name) # Lower(file[i].name)

Compared == request.kind = "compare" /\ response.status = 200

\* ------------------------------------------------------------------ C1
\* C1 as stated: get_team queried with the name of ANY stored team T, in any
\* letter case, answers 200 with exactly the record T.
C1_AnyStoredTeam ==
  request.kind = "team" =>
    \A i \in DOMAIN file :
      SameIgnoringCase(request.team_name, file[i].name) => response = Ok(file[i])

\* C1 amended: for every stored team T that no earlier team of the collection
\* shares its case-insensitive name with, get_team queried with T.name in any
\* letter case (any query that lower-cases to what T.name lower-cases to)
\* answers 200 with exactly the record T.
C1_FirstOfName ==
  request.kind = "team" =>
    \A i \in DOMAIN file :
      (IsFirstOfName(i) /\ Lower(request.team_name) = Lower(file[i].name))
        => response = Ok(file[i])

C1_Witness ==
  /\ request.kind = "team"
  /\ \E i \in DOMAIN file :
       /\ IsFirstOfName(i)
       /\ i > 1
       /\ file[i].name = <<"A", "b">>
       /\ request.team_name = <<"a", "b">>
       /\ response = Ok(file[i])

\* ------------------------------------------------------------------ C2
\* C2: get_team with a query whose lower-cased form is the lower-cased name of
\* no stored team answers 404 "Team not found" and nothing else, also when the
\* collection is empty.
C2_NotFound ==
  (request.kind = "team" /\ ~HasMatch(request.team_name))
    => response = [status |-> 404, detail |-> "Team not found"]

C2_Witness ==
  /\ request.kind = "team"
  /\ Len(file) = MaxTeams
  /\ ~HasMatch(request.team_name)
  /\ \E i \in DOMAIN file : Lower(file[i].name)[1] = Lower(request.team_name)[1]
  /\ response.status = 404

\* ------------------------------------------------------------------ C3
\* C3: get_teams answers 200 with the collection itself: same length, and the
\* record at every position is the record the collection has there.
C3_ListUnmodified ==
  request.kind = "teams" =>
    /\ response.status = 200
    /\ Len(response.body) = Len(file)
    /\ \A i \in DOMAIN file : response.body[i] = file[i]

C3_Witness ==
  /\ request.kind = "teams"
  /\ Len(file) >= 2
  /\ file[1] # file[2]
  /\ response.status = 200

\* ------------------------------------------------------------------ C4
\* C4: compare_teams with two names that both equal the name of one stored
\* team case-insensitively answers 200 with higher_scoring_team "same team",
\* whatever points the collection holds.
C4_SameTeam ==
  (/\ request.kind = "compare"
   /\ \E i \in DOMAIN file :
        /\ Lower(request.team_a) = Lower(file[i].name)
        /\ Lower(request.team_b) = Lower(file[i].name))
    => /\ response.status = 200
       /\ response.body.higher_scoring_team = SAME_TEAM

C4_Witness ==
  /\ Compared
  /\ request.team_a # request.team_b
  /\ Cardinality(Matches(request.team_a)) >= 2
  /\ \E i, j \in Matches(request.team_a) :
       file[i].points_scored # file[j].points_scored
  /\ Matches(request.team_b) = Matches(request.team_a)
  /\ response.body.higher_scoring_team = SAME_TEAM

\* ------------------------------------------------------------------ C5
\* C5 as stated: for ANY stored teams A and B with equal points_scored and
\* A.name # B.name, compare_teams(A.name, B.name) yields "tie".
C5_AnyStoredPair ==
  request.kind = "compare" =>
    \A i, j \in DOMAIN file :
      (/\ request.team_a = file[i].name
       /\ request.team_b = file[j].name
       /\ file[i].points_scored = file[j].points_scored
       /\ file[i].name # file[j].name)
        => /\ response.status = 200
           /\ response.body.higher_scoring_team = TIE

\* C5 amended: for stored teams A and B, each the first team of the collection
\* with its case-insensitive name, with equal points_scored and
\* A.name # B.name, compare_teams(A.name, B.name) yields "tie".
C5_TieOfFirsts ==
  request.kind = "compare" =>
    \A i, j \in DOMAIN file :
      (/\ IsFirstOfName(i)
       /\ IsFirstOfName(j)
       /\ request.team_a = file[i].name
       /\ request.team_b = file[j].name
       /\ file[i].points_scored = file[j].points_scored
       /\ file[i].name # file[j].name)
        => /\ response.status = 200
           /\ response.body.higher_scoring_team = TIE

C5_Witness ==
  /\ Compared
  /\ \E i, j \in DOMAIN file :
       /\ IsFirstOfName(i)
       /\ IsFirstOfName(j)
       /\ request.team_a = file[i].name
       /\ request.team_b = file[j].name
       /\ file[i].points_scored = file[j].points_scored
       /\ file[i].name # file[j].name
  /\ response.body.higher_scoring_team = TIE

\* ------------------------------------------------------------------ C6
\* C6: when the two names resolve to teams a and b with different names and
\* unequal points_scored, higher_scoring_team is the name as stored of the one
\* with the greater points_scored, whichever argument it was.
C6_HigherIsStoredName ==
  (/\ request.kind = "compare"
   /\ HasMatch(request.team_a)
   /\ HasMatch(request.team_b))
    => LET a == file[FirstIdx(request.team_a)]
           b == file[FirstIdx(request.team_b)]
       IN  (a.name # b.name /\ a.points_scored # b.points_scored)
             => /\ response.status = 200
                /\ response.body.higher_scoring_team =
                     IF a.points_scored > b.points_scored THEN a.name ELSE b.name

C6_Witness ==
  /\ Compared
  /\ response.body.team_a.points_scored < response.body.team_b.points_scored
  /\ response.body.team_b.name # request.team_b
  /\ response.body.higher_scoring_team = response.body.team_b.name

\* ------------------------------------------------------------------ C7
\* C7: compare_teams answers 404 "One or both teams not found", and nothing
\* else, exactly when one of its two names matches no stored team; an
\* unmatched name compared with itself is such a 404, never "same team".
C7_NotFoundIffUnmatched ==
  request.kind = "compare" =>
    /\ (response.status = 404)
         <=> (~HasMatch(request.team_a) \/ ~HasMatch(request.team_b))
    /\ response.status = 404
         => response = [status |-> 404, detail |-> "One or both teams not found"]
    /\ response.status \in {200, 404}

C7_Witness ==
  /\ request.kind = "compare"
  /\ file # << >>
  /\ Lower(request.team_a) = Lower(request.team_b)
  /\ ~HasMatch(request.team_a)
  /\ response.status = 404

\* ------------------------------------------------------------------ C8
\* C8: when several stored teams share a name case-insensitively, get_team and
\* the find of compare_teams return the one at the lowest position, for every
\* query matching that name.
C8_FirstMatchWins ==
  /\ (request.kind = "team" /\ Cardinality(Matches(request.team_name)) >= 2)
       => response = Ok(file[FirstIdx(request.team_name)])
  /\ (Compared /\ Cardinality(Matches(request.team_a)) >= 2)
       => response.body.team_a = file[FirstIdx(request.team_a)]
  /\ (Compared /\ Cardinality(Matches(request.team_b)) >= 2)
       => response.body.team_b = file[FirstIdx(request.team_b)]

C8_Witness ==
  /\ Compared
  /\ \E i, j \in Matches(request.team_b) :
       /\ i < j
       /\ file[i] # file[j]
       /\ response.body.team_b = file[i]

\* ------------------------------------------------------------------ C9
\* C9: a successful compare_teams(name_a, name_b) has exactly the fields
\* team_a, team_b and higher_scoring_team, and team_a and team_b are the
\* records get_team answers for name_a and for name_b, in that order.
C9_ResolvesLikeGetTeam ==
  Compared =>
    /\ DOMAIN response.body = {"team_a", "team_b", "higher_scoring_team"}
    /\ get_team(request.team_a) = Ok(response.body.team_a)
    /\ get_team(request.team_b) = Ok(response.body.team_b)

C9_Witness ==
  /\ Compared
  /\ response.body.team_a # response.body.team_b
  /\ response.body.team_a.name # request.team_a

\* ------------------------------------------------------------------ C10
\* What a request answers on a collection, whatever was served before it.
Answer(req, teams) ==
  CASE req.kind = "health" -> Ok([status |-> "ok", log_level |-> LOG_LEVEL])
    [] req.kind = "teams" -> Ok(teams)
    [] req.kind = "team" -> get_team_for(teams, req.team_name, 1)
    [] req.kind = "compare" -> compare(teams, req.team_a, req.team_b)

====
